---- MODULE Spec2Model ----
(***************************************************************************)
(* Reconciliation of the game catalogue with the file system               *)
(* (FilesService.indexFiles / FilesService.integrityCheck) against a       *)
(* record store with soft deletion.                                        *)
(*                                                                         *)
(* A file path is a sequence of one-character strings, so that the regular *)
(* expressions of the filename parser are computed character by character. *)
(* A call of indexFiles or integrityCheck is a process: every `await` on   *)
(* the store is one atomic step.                                           *)
(***************************************************************************)
EXTENDS Integers, Sequences, FiniteSets, TLC

\* ------------------------------------------------------------------ bounds

\* Longest file listing handed to indexFiles / integrityCheck.
MaxLen == 2
\* Store operations that fail (connection lost) during one call.
MaxFaults == 2
\* Longest listing of two scans that overlap.
MaxOverlap == 1

\* ------------------------------------------------------------- file paths

\* "A (2013).z"
PathA == <<"A", " ", "(", "2", "0", "1", "3", ")", ".", "z">>
\* "d/B(1999)(v1)(EA).z"
PathB == <<"d", "/", "B", "(", "1", "9", "9", "9", ")", "(", "v", "1", ")",
           "(", "E", "A", ")", ".", "z">>
\* "C.z": no release year
PathN == <<"C", ".", "z">>

Paths == {PathA, PathB, PathN}
\* file sizes in bytes: a size is only ever compared for equality
Sizes == {1, 2}

\* IGameVaultFile: {name, size}
Files == [name : Paths, size : Sizes]

\* A listing of the file system: at most MaxLen files, no path listed twice.
Listings ==
  UNION { { l \in [1..n -> Files] :
              \A i, j \in 1..n : i # j => l[i].name # l[j].name } :
          n \in 0..MaxLen }

\* ------------------------------------------------------- filename parser

Digits == {"0", "1", "2", "3", "4", "5", "6", "7", "8", "9"}
WhiteSpace == {" "}

DigitValue(c) ==
  CASE c = "0" -> 0 [] c = "1" -> 1 [] c = "2" -> 2 [] c = "3" -> 3
    [] c = "4" -> 4 [] c = "5" -> 5 [] c = "6" -> 6 [] c = "7" -> 7
    [] c = "8" -> 8 [] c = "9" -> 9

Min(S) == CHOOSE x \in S : \A y \in S : x <= y
Max(S) == CHOOSE x \in S : \A y \in S : x >= y

IndexesOf(s, cs) == {i \in 1..Len(s) : s[i] \in cs}

\* .replace(/^.*[\\/]/, ""): drop everything up to the last separator
RemoveDirectory(s) ==
  LET seps == IndexesOf(s, {"/", "\\"})
  IN  IF seps = {} THEN s ELSE SubSeq(s, Max(seps) + 1, Len(s))

\* .replace(/\..*$/, ""): drop the first dot and what follows it
RemoveExtensionFirstDot(s) ==
  LET dots == IndexesOf(s, {"."})
  IN  IF dots = {} THEN s ELSE SubSeq(s, 1, Min(dots) - 1)

\* .replace(/\.([^.]*)$/, ""): drop the last dot and what follows it
RemoveExtension(s) ==
  LET dots == IndexesOf(s, {"."})
  IN  IF dots = {} THEN s ELSE SubSeq(s, 1, Max(dots) - 1)

\* .replaceAll(/\([^)]*\)/g, ""): drop every group from a "(" to the first
\* ")" after it, leftmost first, without overlap
RECURSIVE RemoveParentheses(_)
RemoveParentheses(s) ==
  LET opens == IndexesOf(s, {"("})
  IN  IF opens = {} THEN s
      ELSE LET i == Min(opens)
               closes == {j \in IndexesOf(s, {")"}) : j > i}
           IN  IF closes = {} THEN s
               ELSE SubSeq(s, 1, i - 1)
                      \o RemoveParentheses(SubSeq(s, Min(closes) + 1, Len(s)))

\* .trim()
Trim(s) ==
  LET keep == {i \in 1..Len(s) : s[i] \notin WhiteSpace}
  IN  IF keep = {} THEN <<>> ELSE SubSeq(s, Min(keep), Max(keep))

regexExtractTitle(fileName) ==
  Trim(RemoveParentheses(RemoveExtension(RemoveDirectory(fileName))))

\* /\((v[^)]+)\)/: positions i of a "(" followed by "v", by at least one
\* character other than ")" and then by ")"
VersionMatches(s) ==
  {i \in 1..Len(s) :
     /\ s[i] = "("
     /\ i + 1 <= Len(s)
     /\ s[i + 1] = "v"
     /\ \E j \in (i + 3)..Len(s) :
          /\ s[j] = ")"
          /\ \A k \in (i + 2)..(j - 1) : s[k] # ")"}

\* undefined
NoVersion == <<>>

regexExtractVersion(fileName) ==
  IF VersionMatches(fileName) = {} THEN NoVersion
  ELSE LET i == Min(VersionMatches(fileName))
           j == Min({k \in (i + 2)..Len(fileName) : fileName[k] = ")"})
       IN  SubSeq(fileName, i + 1, j - 1)

\* /\((\d{4})/, the pattern without its closing parenthesis
YearMatchesUnclosed(s) ==
  {i \in 1..Len(s) :
     /\ s[i] = "("
     /\ i + 4 <= Len(s)
     /\ \A k \in 1..4 : s[i + k] \in Digits}

\* /\((\d{4})\)/: positions i of a "(" followed by four digits and ")"
YearMatches(s) ==
  {i \in 1..Len(s) :
     /\ s[i] = "("
     /\ i + 5 <= Len(s)
     /\ \A k \in 1..4 : s[i + k] \in Digits
     /\ s[i + 5] = ")"}

\* exec(fileName) is null without a match and null[1] throws a TypeError
ReleaseYearThrows(fileName) == YearMatches(fileName) = {}

\* the four digits of the first match
regexExtractReleaseYear(fileName) ==
  SubSeq(fileName, Min(YearMatches(fileName)) + 1,
         Min(YearMatches(fileName)) + 4)

\* new Date("yyyy"): midnight of 1 January of that year
NewDate(yyyy) ==
  [year  |-> DigitValue(yyyy[1]) * 1000 + DigitValue(yyyy[2]) * 100
               + DigitValue(yyyy[3]) * 10 + DigitValue(yyyy[4]),
   month |-> 1,
   day   |-> 1]

\* /\(EA\)/.test(fileName)
regexExtractEarlyAccessFlag(fileName) ==
  \E i \in 1..Len(fileName) :
    /\ i + 3 <= Len(fileName)
    /\ SubSeq(fileName, i, i + 3) = <<"(", "E", "A", ")">>

\* ------------------------------------------------------------ record store

VARIABLES
  store,   \* the rows of the game table, soft-deleted ones included
  ix,      \* ix[p]: the indexFiles call of process p
  ic,      \* the integrityCheck call
  faults   \* store operations that failed since the running call began

vars == <<store, ix, ic, faults>>

\* an entity that was never saved has no id
NoId == 0
\* undefined
NoGame == [id |-> NoId]

\* rawg_id of a game that was not looked up at the metadata provider
NoRawgId == 0
\* the identifiers that the metadata provider gives
RawgIds == {1}

\* GameExistance
Verdicts == {"EXISTS", "DOES_NOT_EXIST", "EXISTS_BUT_DELETED",
             "EXISTS_BUT_ALTERED"}

RowsAt(s, path) == {r \in s : r.file_path = path}
Ids(s) == {r.id : r \in s}
Active(s) == {r \in s : ~r.deleted}

\* the column without its unique index
UniqueFilePathOff(s, game) == TRUE

\* @Column({ unique: true }) file_path: no other row, soft-deleted or not,
\* holds the path of game
UniqueFilePath(s, game) ==
  \A r \in s : r.id # game.id => r.file_path # game.file_path

\* the id the table generates for an inserted row
GeneratedId(s) == IF s = {} THEN 1 ELSE Max(Ids(s)) + 1

\* RecordStore.findByPath, soft-deleted rows included, then the verdict:
\* no row, soft-deleted row, row of another size, identical row
checkIfGameExistsInDatabase(s, game) ==
  IF RowsAt(s, game.file_path) = {} THEN <<"DOES_NOT_EXIST", NoGame>>
  ELSE LET existing == CHOOSE r \in RowsAt(s, game.file_path) : TRUE
       IN  IF existing.deleted THEN <<"EXISTS_BUT_DELETED", existing>>
           ELSE IF existing.size # game.size
                THEN <<"EXISTS_BUT_ALTERED", existing>>
                ELSE <<"EXISTS", existing>>

\* RecordStore.create / .update: an entity without id is inserted, one with
\* an id overwrites the row of that id; the unique index rejects the write
saveGame(s, game) ==
  IF game.id = NoId
  THEN [ok    |-> UniqueFilePath(s, game),
        op    |-> "create",
        store |-> s \cup {[game EXCEPT !.id = GeneratedId(s)]}]
  ELSE [ok    |-> UniqueFilePath(s, game),
        op    |-> "update",
        store |-> {r \in s : r.id # game.id} \cup {game}]

\* RecordStore.restore(id) -> entry: clears the soft-delete marker
restoreGame(s, id) ==
  LET hit == {r \in s : r.id = id}
      row == CHOOSE r \in hit : TRUE
  IN  IF hit = {} THEN [ok |-> FALSE, op |-> "restore", store |-> s,
                        game |-> NoGame]
      ELSE [ok    |-> TRUE,
            op    |-> "restore",
            store |-> (s \ hit) \cup {[row EXCEPT !.deleted = FALSE]},
            game  |-> [row EXCEPT !.deleted = FALSE]]

\* RecordStore.softDelete: sets the soft-delete marker, the row stays
deleteGame(s, game) ==
  {IF r.id = game.id THEN [r EXCEPT !.deleted = TRUE] ELSE r : r \in s}

\* RecordStore.listActive, in id order
RECURSIVE InIdOrder(_)
InIdOrder(rows) ==
  IF rows = {} THEN <<>>
  ELSE LET first == CHOOSE r \in rows : \A q \in rows : r.id <= q.id
       IN  <<first>> \o InIdOrder(rows \ {first})

getAllGames(s) == InIdOrder(Active(s))

\* ------------------------------------------------------------- indexFiles

Procs == {1, 2}

NoExisting == <<"NONE", NoGame>>

\* what a call of indexFiles resolves to: Promise<void> (line 28)
Undefined == <<>>

IdleIndex ==
  [pc |-> "idle", files |-> <<>>, pos |-> 1, gameToIndex |-> NoGame,
   existing |-> NoExisting, restoredGame |-> NoGame, log |-> <<>>,
   store0 |-> {}, repeat |-> "no", dir |-> <<>>, returned |-> Undefined,
   origin |-> {}, settled |-> {}]

IdleIntegrity ==
  [pc |-> "idle", files |-> <<>>, games |-> <<>>, pos |-> 1, store0 |-> {}]

IndexRunning(p) == ix[p].pc \in {"loop", "switch", "update"}
IntegrityRunning == ic.pc = "loop"
NothingRunning == ~IntegrityRunning /\ \A p \in Procs : ~IndexRunning(p)
\* no call is running and none has just ended
Quiet == ic.pc = "idle" /\ \A p \in Procs : ix[p].pc = "idle"

\* lines 31-42: new Game() filled from the descriptor and its file name
ParseGame(file) ==
  [id           |-> NoId,
   file_path    |-> file.name,
   title        |-> regexExtractTitle(file.name),
   size         |-> file.size,
   release_date |-> NewDate(regexExtractReleaseYear(file.name)),
   version      |-> regexExtractVersion(file.name),
   early_access |-> regexExtractEarlyAccessFlag(file.name),
   rawg_id      |-> NoRawgId,
   deleted      |-> FALSE]

\* what is recorded of one file of the run: the rows found at its path when
\* it was looked up, the verdict, the store writes issued for it, and what
\* went wrong ("none", "parse": the file name, "store": a store operation)
LogEntry(pre) ==
  [error |-> "none", pre |-> pre, verdict |-> "NONE", ops |-> <<>>]

\* whether the store operation at hand fails for a reason of its own
Outcomes == IF faults < MaxFaults THEN BOOLEAN ELSE {FALSE}
Fault(fails) == faults' = IF fails THEN faults + 1 ELSE faults

Noted(r, op) ==
  [r EXCEPT !.log[Len(r.log)].ops = Append(@, op)]

\* the for loop goes on with the next descriptor (`continue`, line 30)
NextFile(r) ==
  [r EXCEPT !.pc = "loop", !.pos = @ + 1, !.gameToIndex = NoGame,
            !.existing = NoExisting, !.restoredGame = NoGame]

\* a catch block that leaves the loop
CatchBreak(r, kind) ==
  [NextFile([r EXCEPT !.log[Len(r.log)].error = kind])
     EXCEPT !.pos = Len(r.files) + 1]

\* a catch block that throws the error again
CatchRethrow(r, kind) ==
  [r EXCEPT !.log[Len(r.log)].error = kind, !.pc = "raised"]

\* catch (error) { logger.error(...) } (lines 81-86): the failure of the
\* current file is logged and the loop goes on
Catch(r, kind) ==
  NextFile([r EXCEPT !.log[Len(r.log)].error = kind])

\* updateGame that forgets to take the size from the file
updateGameKeepSize(gameToUpdate, updatesToApply) ==
  [gameToUpdate EXCEPT
     !.file_path    = updatesToApply.file_path,
     !.title        = updatesToApply.title,
     !.release_date = updatesToApply.release_date,
     !.version      = updatesToApply.version,
     !.early_access = updatesToApply.early_access]

\* updateGame without the spread of gameToUpdate: the entity saved holds the
\* id of the stored one and the fields taken from the file only
updateGameNoSpread(gameToUpdate, updatesToApply) ==
  [updatesToApply EXCEPT !.id = gameToUpdate.id]

\* updateGame (lines 98-114): the stored entity with the six fields taken
\* from the file overwritten; everything else is carried over
updateGame(gameToUpdate, updatesToApply) ==
  [gameToUpdate EXCEPT
     !.file_path    = updatesToApply.file_path,
     !.title        = updatesToApply.title,
     !.release_date = updatesToApply.release_date,
     !.size         = updatesToApply.size,
     !.version      = updatesToApply.version,
     !.early_access = updatesToApply.early_access]

\* a call of indexFiles begins on process p
Begin(p, listing, rep) ==
  ix' = [ix EXCEPT ![p] = [IdleIndex EXCEPT !.pc = "loop", !.files = listing,
                                            !.store0 = store, !.repeat = rep]]

\* indexFiles(gamesInFileSystem) is called while no other call is running
StartIndex(listing) ==
  /\ Quiet
  /\ Begin(1, listing, "no")
  /\ UNCHANGED <<store, ic, faults>>

\* indexFiles is called again with the listing of the call that has just
\* returned; the call is marked "clean" when no store operation of the
\* first one failed
RepeatIndex ==
  /\ ix[1].pc = "done"
  /\ ix[2].pc = "idle"
  /\ Begin(1, ix[1].files,
           IF \A i \in 1..Len(ix[1].log) : ix[1].log[i].error # "store"
           THEN "clean" ELSE "dirty")
  /\ faults' = 0
  /\ UNCHANGED <<store, ic>>

\* a second scan of the same file system overlaps the first: indexFiles is
\* called with the listing of the call that is still running
StartIndexConcurrently ==
  /\ IndexRunning(1)
  /\ ix[2].pc = "idle"
  /\ Len(ix[1].files) <= MaxOverlap
  /\ ix' = [ix EXCEPT ![1].store0 = {},
                      ![2] = [IdleIndex EXCEPT !.pc = "loop",
                                               !.files = ix[1].files]]
  /\ UNCHANGED <<store, ic, faults>>

\* the caller is done with the calls that have ended
Forget ==
  /\ NothingRunning
  /\ ~Quiet
  /\ ix' = [p \in Procs |-> IdleIndex]
  /\ ic' = IdleIntegrity
  /\ faults' = 0
  /\ UNCHANGED store

\* lines 33-38 throw: the file name holds no release year
IndexParseFails(p) ==
  LET r == ix[p] IN
  /\ r.pc = "loop"
  /\ r.pos <= Len(r.files)
  /\ ReleaseYearThrows(r.files[r.pos].name)
  /\ ix' = [ix EXCEPT ![p] =
              Catch([r EXCEPT !.log = Append(@, LogEntry({}))],
                    "parse")]
  /\ UNCHANGED <<store, ic, faults>>

\* lines 31-54: the file is parsed and looked up; an identical row ends the
\* file, any other verdict goes to its case of the switch
IndexCheck(p) ==
  LET r    == ix[p]
      file == r.files[r.pos]
      g    == ParseGame(file)
      r1   == [r EXCEPT !.gameToIndex = g,
                        !.log = Append(@, LogEntry(RowsAt(store, file.name)))]
      t    == checkIfGameExistsInDatabase(store, g)
      r2   == [r1 EXCEPT !.existing = t, !.log[Len(r1.log)].verdict = t[1]]
  IN
  /\ r.pc = "loop"
  /\ r.pos <= Len(r.files)
  /\ ~ReleaseYearThrows(file.name)
  /\ \E fails \in Outcomes :
       /\ ix' = [ix EXCEPT ![p] =
                   IF fails THEN Catch(r1, "store")
                   ELSE IF t[1] = "EXISTS" THEN NextFile(r2)
                   ELSE [r2 EXCEPT !.pc = "switch"]]
       /\ Fault(fails)
  /\ UNCHANGED <<store, ic>>

\* a store write of process p: it fails by itself (fails) or is rejected
\* (~res.ok), and then the catch block runs; else the store is written and
\* the call goes on as r1
Write(p, res, fails, r1) ==
  LET r == Noted(ix[p], res.op) IN
  /\ Fault(fails)
  /\ IF fails \/ ~res.ok
     THEN /\ ix' = [ix EXCEPT ![p] = Catch(r, "store")]
          /\ UNCHANGED store
     ELSE /\ ix' = [ix EXCEPT ![p] = r1]
          /\ store' = res.store

\* case DOES_NOT_EXIST without its `continue`: after the save the next case
\* runs, restoreGame(existingGameTuple[1].id) throws on the undefined row
IndexSaveNewFallsThrough(p) ==
  LET r == ix[p] IN
  /\ r.pc = "switch"
  /\ r.existing[1] = "DOES_NOT_EXIST"
  /\ \E fails \in Outcomes :
       LET res == saveGame(store, r.gameToIndex)
       IN  Write(p, res, fails, Catch(Noted(r, res.op), "store"))
  /\ UNCHANGED ic

\* case DOES_NOT_EXIST (lines 56-60): saveGame(gameToIndex)
IndexSaveNew(p) ==
  LET r == ix[p] IN
  /\ r.pc = "switch"
  /\ r.existing[1] = "DOES_NOT_EXIST"
  /\ \E fails \in Outcomes :
       LET res == saveGame(store, r.gameToIndex)
       IN  Write(p, res, fails, NextFile(Noted(r, res.op)))
  /\ UNCHANGED ic

\* case EXISTS_BUT_DELETED without the call of restoreGame: the row found is
\* updated as it is
IndexRestoreSkipped(p) ==
  LET r == ix[p] IN
  /\ r.pc = "switch"
  /\ r.existing[1] = "EXISTS_BUT_DELETED"
  /\ ix' = [ix EXCEPT ![p] = [r EXCEPT !.pc = "update",
                                        !.restoredGame = r.existing[2]]]
  /\ UNCHANGED <<store, ic, faults>>

\* case EXISTS_BUT_DELETED (lines 62-68): restoreGame(existing.id)
IndexRestore(p) ==
  LET r == ix[p] IN
  /\ r.pc = "switch"
  /\ r.existing[1] = "EXISTS_BUT_DELETED"
  /\ \E fails \in Outcomes :
       LET res == restoreGame(store, r.existing[2].id)
       IN  Write(p, res, fails,
                 [Noted(r, res.op) EXCEPT !.pc = "update",
                                          !.restoredGame = res.game])
  /\ UNCHANGED ic

\* case EXISTS_BUT_DELETED (lines 69-70): updateGame(restoredGame, gameToIndex)
IndexUpdateRestored(p) ==
  LET r == ix[p] IN
  /\ r.pc = "update"
  /\ \E fails \in Outcomes :
       LET res == saveGame(store, updateGame(r.restoredGame, r.gameToIndex))
       IN  Write(p, res, fails, NextFile(Noted(r, res.op)))
  /\ UNCHANGED ic

\* case EXISTS_BUT_ALTERED (lines 73-79): updateGame(existing, gameToIndex)
IndexUpdateAltered(p) ==
  LET r == ix[p] IN
  /\ r.pc = "switch"
  /\ r.existing[1] = "EXISTS_BUT_ALTERED"
  /\ \E fails \in Outcomes :
       LET res == saveGame(store, updateGame(r.existing[2], r.gameToIndex))
       IN  Write(p, res, fails, NextFile(Noted(r, res.op)))
  /\ UNCHANGED ic

\* line 88: the loop is over, the call returns
IndexFinished(p) ==
  /\ ix[p].pc = "loop"
  /\ ix[p].pos > Len(ix[p].files)
  /\ ix' = [ix EXCEPT ![p].pc = "done"]
  /\ UNCHANGED <<store, ic, faults>>

\* --------------------------------------------------------- integrityCheck

\* a find that also compares the size
FoundInFileSystemBySize(files, gameInDatabase) ==
  \E i \in 1..Len(files) :
    /\ files[i].name = gameInDatabase.file_path
    /\ files[i].size = gameInDatabase.size

\* gamesInFileSystem.find((g) => g.name === gameInDatabase.file_path)
FoundInFileSystem(files, gameInDatabase) ==
  \E i \in 1..Len(files) : files[i].name = gameInDatabase.file_path

\* integrityCheck(gamesInFileSystem, gamesInDatabase) is called with the
\* active rows of the store while no other call is running
StartIntegrity(listing) ==
  /\ Quiet
  /\ ic' = [pc |-> "loop", files |-> listing, games |-> getAllGames(store),
            pos |-> 1, store0 |-> store]
  /\ UNCHANGED <<store, ix, faults>>

\* lines 198-203: the file of the record is in the listing
IntegrityKeep ==
  /\ ic.pc = "loop"
  /\ ic.pos <= Len(ic.games)
  /\ FoundInFileSystem(ic.files, ic.games[ic.pos])
  /\ ic' = [ic EXCEPT !.pos = @ + 1]
  /\ UNCHANGED <<store, ix, faults>>

\* the row of the missing file is removed instead of marked
IntegrityDeleteHard ==
  /\ ic.pc = "loop"
  /\ ic.pos <= Len(ic.games)
  /\ ~FoundInFileSystem(ic.files, ic.games[ic.pos])
  /\ ic' = [ic EXCEPT !.pos = @ + 1]
  /\ store' = {r \in store : r.id # ic.games[ic.pos].id}
  /\ UNCHANGED <<ix, faults>>

\* lines 203-208: the file is gone, deleteGame(gameInDatabase); nothing
\* catches its failure, which ends the call
IntegrityDelete ==
  /\ ic.pc = "loop"
  /\ ic.pos <= Len(ic.games)
  /\ ~FoundInFileSystem(ic.files, ic.games[ic.pos])
  /\ \E fails \in Outcomes :
       /\ Fault(fails)
       /\ IF fails
          THEN /\ ic' = [ic EXCEPT !.pc = "raised"]
               /\ UNCHANGED store
          ELSE /\ ic' = [ic EXCEPT !.pos = @ + 1]
               /\ store' = deleteGame(store, ic.games[ic.pos])
  /\ UNCHANGED ix

\* line 210: the loop is over, the call returns
IntegrityFinished ==
  /\ ic.pc = "loop"
  /\ ic.pos > Len(ic.games)
  /\ ic' = [ic EXCEPT !.pc = "returned"]
  /\ UNCHANGED <<store, ix, faults>>

\* ---------------------------------------------------------- specifications

Init ==
  /\ store = {}
  /\ ix = [p \in Procs |-> IdleIndex]
  /\ ic = IdleIntegrity
  /\ faults = 0

IndexStep(p) ==
  \/ IndexParseFails(p)
  \/ IndexCheck(p)
  \/ IndexSaveNew(p)
  \/ IndexRestore(p)
  \/ IndexUpdateRestored(p)
  \/ IndexUpdateAltered(p)
  \/ IndexFinished(p)

IntegrityStep ==
  \/ IntegrityKeep
  \/ IntegrityDelete
  \/ IntegrityFinished

\* the calls of a scan run one after the other
Next ==
  \/ \E listing \in Listings : StartIndex(listing)
  \/ RepeatIndex
  \/ \E listing \in Listings : StartIntegrity(listing)
  \/ Forget
  \/ IndexStep(1)
  \/ IntegrityStep

Spec == Init /\ [][Next]_vars

\* two scans may overlap
NextConcurrent ==
  \/ \E listing \in Listings : StartIndex(listing)
  \/ RepeatIndex
  \/ StartIndexConcurrently
  \/ \E listing \in Listings : StartIntegrity(listing)
  \/ Forget
  \/ \E p \in Procs : IndexStep(p)
  \/ IntegrityStep

SpecConcurrent == Init /\ [][NextConcurrent]_vars

\* ------------------------------------------------------------ cancellation

\* the process is shut down while a call of indexFiles runs: the call takes
\* no further step, whatever it was waiting for
Abort ==
  /\ IndexRunning(1)
  /\ ix[1].repeat = "no"
  /\ ix' = [ix EXCEPT ![1].pc = "aborted"]
  /\ UNCHANGED <<store, ic, faults>>

\* after the restart indexFiles is called with the same listing; the call
\* keeps the store that the aborted call began with (origin) and the files
\* that the aborted call had got past (settled)
ResumeIndex ==
  /\ ix[1].pc = "aborted"
  /\ ix' = [ix EXCEPT ![1] =
              [IdleIndex EXCEPT !.pc = "loop", !.files = ix[1].files,
                                !.store0 = store, !.repeat = "resumed",
                                !.origin = ix[1].store0,
                                !.settled = 1..(ix[1].pos - 1)]]
  /\ UNCHANGED <<store, ic, faults>>

\* the calls of a scan run one after the other and a call of indexFiles may
\* be cut short
NextCancel ==
  \/ \E listing \in Listings : StartIndex(listing)
  \/ RepeatIndex
  \/ \E listing \in Listings : StartIntegrity(listing)
  \/ Forget
  \/ Abort
  \/ ResumeIndex
  \/ IndexStep(1)
  \/ IntegrityStep

SpecCancel == Init /\ [][NextCancel]_vars

\* ------------------------------------------------------------- a full scan

\* the second pass of a scan: when indexFiles has returned, the active rows
\* are read and integrityCheck is called with them and the same listing
ScanIntegrity ==
  /\ ix[1].pc = "done"
  /\ ix[2].pc = "idle"
  /\ ic.pc = "idle"
  /\ ic' = [pc |-> "loop", files |-> ix[1].files,
            games |-> getAllGames(store), pos |-> 1, store0 |-> store]
  /\ UNCHANGED <<store, ix, faults>>

\* scans of two passes, and calls of indexFiles or integrityCheck alone
NextScan ==
  \/ \E listing \in Listings : StartIndex(listing)
  \/ \E listing \in Listings : StartIntegrity(listing)
  \/ ScanIntegrity
  \/ Forget
  \/ IndexStep(1)
  \/ IntegrityStep

SpecScan == Init /\ [][NextScan]_vars

\* ------------------------------------------------- metadata enrichment

\* between two calls the enrichment collaborator looks a game up at the
\* metadata provider and stores the identifier it got
Enrich ==
  /\ Quiet
  /\ \E row \in store : \E n \in RawgIds :
       /\ row.rawg_id = NoRawgId
       /\ store' = (store \ {row}) \cup {[row EXCEPT !.rawg_id = n]}
  /\ UNCHANGED <<ix, ic, faults>>

NextEnrich ==
  \/ \E listing \in Listings : StartIndex(listing)
  \/ \E listing \in Listings : StartIntegrity(listing)
  \/ Enrich
  \/ Forget
  \/ IndexStep(1)
  \/ IntegrityStep

SpecEnrich == Init /\ [][NextEnrich]_vars

\* ------------------------------------------------ one file of any name

\* pieces of file names: a letter, a blank, two release years, a group of
\* five digits, a version, the early access mark, a dot, a separator,
\* single parentheses and a "v"
TokLetter  == <<"A">>
TokBlank   == <<" ">>
TokYear    == <<"(", "2", "0", "1", "3", ")">>
TokYear2   == <<"(", "1", "9", "9", "9", ")">>
TokFive    == <<"(", "2", "0", "1", "3", "5", ")">>
TokVersion == <<"(", "v", "1", ")">>
TokEA      == <<"(", "E", "A", ")">>
TokDot     == <<".">>
TokSep     == <<"/">>
TokOpen    == <<"(">>
TokClose   == <<")">>
TokV       == <<"v">>

Tokens == {TokLetter, TokBlank, TokYear, TokYear2, TokFive, TokVersion,
           TokEA, TokDot, TokSep, TokOpen, TokClose, TokV}

\* Most pieces in one file name.
MaxTokens == 3

RECURSIVE Flatten(_)
Flatten(ts) == IF ts = <<>> THEN <<>> ELSE Head(ts) \o Flatten(Tail(ts))

TokenPaths ==
  UNION { {Flatten(ts) : ts \in [1..n -> Tokens]} : n \in 1..MaxTokens }

\* "Grand Theft Auto V (2013) (v1.0.0) (EA).zip"
PathExample ==
  <<"G", "r", "a", "n", "d", " ", "T", "h", "e", "f", "t", " ", "A", "u",
    "t", "o", " ", "V", " ", "(", "2", "0", "1", "3", ")", " ", "(", "v",
    "1", ".", "0", ".", "0", ")", " ", "(", "E", "A", ")", ".", "z", "i",
    "p">>
\* "Portal.zip"
PathPortal == <<"P", "o", "r", "t", "a", "l", ".", "z", "i", "p">>
\* "(2013).zip"
PathNoTitle == <<"(", "2", "0", "1", "3", ")", ".", "z", "i", "p">>

ParsePaths == TokenPaths \cup {PathExample, PathPortal, PathNoTitle}

\* a row that the table already holds at a path, with another size than the
\* file has now; at a path without release year its date is some other one
ExistingRow(path, deleted) ==
  [id           |-> 1,
   file_path    |-> path,
   title        |-> regexExtractTitle(path),
   size         |-> 2,
   release_date |-> IF ReleaseYearThrows(path)
                    THEN NewDate(<<"1", "9", "7", "0">>)
                    ELSE NewDate(regexExtractReleaseYear(path)),
   version      |-> regexExtractVersion(path),
   early_access |-> regexExtractEarlyAccessFlag(path),
   rawg_id      |-> NoRawgId,
   deleted      |-> deleted]

\* indexFiles([{name, size: 1}]) has just been called, for any file name,
\* on a table without a row at that path or with one, active or soft-deleted
InitParse ==
  \E path \in ParsePaths :
    \E s \in {{}} \cup {{ExistingRow(path, d)} : d \in BOOLEAN} :
      /\ store = s
      /\ ix = [p \in Procs |->
                 IF p = 1
                 THEN [IdleIndex EXCEPT !.pc = "loop",
                                        !.files = <<[name |-> path, size |-> 1]>>,
                                        !.store0 = s]
                 ELSE IdleIndex]
      /\ ic = IdleIntegrity
      /\ faults = 0

NextParse ==
  \/ IndexParseFails(1)
  \/ IndexCheck(1)
  \/ IndexSaveNew(1)
  \/ IndexRestore(1)
  \/ IndexUpdateRestored(1)
  \/ IndexUpdateAltered(1)
  \/ IndexFinished(1)

SpecParse == InitParse /\ [][NextParse]_vars

\* ---------------------------------------------------------------- getFiles

\* the array of lines 231-242
AllowedExtensions ==
  {<<".", "z", "i", "p">>, <<".", "7", "z">>, <<".", "r", "a", "r">>,
   <<".", "t", "a", "r">>, <<".", "t", "a", "r", ".", "g", "z">>,
   <<".", "t", "a", "r", ".", "b", "z", "2">>,
   <<".", "t", "a", "r", ".", "x", "z">>, <<".", "t", "g", "z">>,
   <<".", "t", "b", "z", "2">>, <<".", "t", "x", "z">>}

\* path.extname: from the last dot of the last path segment to its end; ""
\* when the segment has no dot, starts with its only dot or is ".."
extname(path) ==
  LET seps == IndexesOf(path, {"/"})
      base == IF seps = {} THEN path
              ELSE SubSeq(path, Max(seps) + 1, Len(path))
      dots == IndexesOf(base, {"."})
  IN  IF dots = {} \/ Max(dots) = 1 \/ base = <<".", ".">> THEN <<>>
      ELSE SubSeq(base, Max(dots), Len(base))

\* lines 226-252: the entries that readdirSync gave whose extname is in the
\* array, each with its size, in the order of the directory
getFiles(entries) ==
  SelectSeq(entries, LAMBDA file : extname(file.name) \in AllowedExtensions)

\* "A(2013).zip", "B(2013).tar.gz", "C(2013).tar", "D(2013).txt", ".zip",
\* "P.zip", "d.zip/G"
EntryZip    == <<"A", "(", "2", "0", "1", "3", ")", ".", "z", "i", "p">>
EntryTarGz  == <<"B", "(", "2", "0", "1", "3", ")", ".", "t", "a", "r", ".",
                 "g", "z">>
EntryTar    == <<"C", "(", "2", "0", "1", "3", ")", ".", "t", "a", "r">>
EntryTxt    == <<"D", "(", "2", "0", "1", "3", ")", ".", "t", "x", "t">>
EntryHidden == <<".", "z", "i", "p">>
EntryInDir  == <<"d", ".", "z", "i", "p", "/", "G">>

EntryNames == {EntryZip, EntryTarGz, EntryTar, EntryTxt, EntryHidden,
               PathPortal, EntryInDir}

\* Most files under the root.
MaxEntries == 2

\* what readdirSync and statSync give: files of distinct names
Directories ==
  UNION { { d \in [1..n -> {[name |-> e, size |-> 1] : e \in EntryNames}] :
              \A i, j \in 1..n : i # j => d[i].name # d[j].name } :
          n \in 0..MaxEntries }

\* a scan begins: the files under the root are listed and indexFiles is
\* called with the listing
Scan(entries) ==
  /\ Quiet
  /\ ix' = [ix EXCEPT ![1] = [IdleIndex EXCEPT !.pc = "loop",
                                               !.files = getFiles(entries),
                                               !.store0 = store,
                                               !.dir = entries]]
  /\ UNCHANGED <<store, ic, faults>>

NextFiles ==
  \/ \E entries \in Directories : Scan(entries)
  \/ IndexParseFails(1)
  \/ IndexCheck(1)
  \/ IndexSaveNew(1)
  \/ IndexFinished(1)

SpecFiles == Init /\ [][NextFiles]_vars

\* ------------------------------------------------- a run without failures

\* lines 31-80 for one file when every store operation succeeds
IndexOne(s, file) ==
  IF ReleaseYearThrows(file.name) THEN [store |-> s, verdict |-> "NONE"]
  ELSE LET g == ParseGame(file)
           t == checkIfGameExistsInDatabase(s, g)
       IN  [verdict |-> t[1],
            store |->
              CASE t[1] = "EXISTS" -> s
                [] t[1] = "DOES_NOT_EXIST" -> saveGame(s, g).store
                [] t[1] = "EXISTS_BUT_DELETED" ->
                     LET res == restoreGame(s, t[2].id)
                     IN  saveGame(res.store, updateGame(res.game, g)).store
                [] t[1] = "EXISTS_BUT_ALTERED" ->
                     saveGame(s, updateGame(t[2], g)).store]

\* lines 30-87 over a whole listing when every store operation succeeds
RECURSIVE IndexAll(_, _)
IndexAll(s, files) ==
  IF files = <<>> THEN [store |-> s, verdicts |-> <<>>]
  ELSE LET one  == IndexOne(s, Head(files))
           rest == IndexAll(one.store, Tail(files))
       IN  [store |-> rest.store, verdicts |-> <<one.verdict>> \o rest.verdicts]

\* ----------------------------------------------------------------- helpers

\* the listing without its k-th file
Without(files, k) ==
  [i \in 1..(Len(files) - 1) |-> IF i < k THEN files[i] ELSE files[i + 1]]

\* the files of the call whose handling is over
Handled(r) == {i \in 1..Len(r.log) : i < r.pos \/ r.pc = "done"}
FailedFiles(r) == {i \in 1..Len(r.log) : r.log[i].error # "none"}
NoStoreWrite(r) == \A i \in 1..Len(r.log) : r.log[i].ops = <<>>

\* what the entry i of the log says of the path of file i, by the row that
\* was there when the file was looked up
WasAbsent(r, i)  == r.log[i].pre = {}
WasActive(r, i)  == \E row \in r.log[i].pre : ~row.deleted
WasDeleted(r, i) == \E row \in r.log[i].pre : row.deleted
RowBefore(r, i)  == CHOOSE row \in r.log[i].pre : TRUE
Classified(r, i) == r.log[i].verdict # "NONE"
Succeeded(r, i)  == i \in Handled(r) /\ r.log[i].error = "none"

\* the listing handed to integrityCheck names the path of the record
Listed(game) == game.file_path \in {ic.files[j].name : j \in 1..Len(ic.files)}

\* the store holds exactly `row` at the path of file i
HoldsAt(r, i, row) == RowsAt(store, r.files[i].name) = {row}

\* ------------------------------------------------------------------ claims

\* C1 as stated: whenever indexFiles has returned and is run again with the
\* same listing, the second run issues no store write and leaves the store
\* as it found it.
C1_SecondRunNoWrite ==
  \A p \in Procs :
    (ix[p].pc = "done" /\ ix[p].repeat # "no")
      => NoStoreWrite(ix[p]) /\ store = ix[p].store0

\* C1 amended: when no store operation failed in the first run of
\* indexFiles(L), a second run with the same listing issues no store write
\* at any point and the store stays what it was when the second run began.
C1_Idempotent ==
  \A p \in Procs :
    ix[p].repeat = "clean" => NoStoreWrite(ix[p]) /\ store = ix[p].store0

C1_Witness ==
  /\ ix[1].pc = "done"
  /\ ix[1].repeat = "clean"
  /\ Len(ix[1].files) = 2
  /\ \A i \in 1..2 : ix[1].log[i].verdict = "EXISTS"

\* C2: when exactly one file of the listing failed (its name did not parse
\* or a store operation failed for it), the call has handled every file, and
\* every other file got the verdict and left the rows at its path that a
\* run over the listing without the failing file gives from the same store.
C2_FailureIsolated ==
  \A p \in Procs :
    LET r == ix[p] IN
    (r.pc = "done" /\ Cardinality(FailedFiles(r)) = 1)
      => /\ Len(r.log) = Len(r.files)
         /\ LET k   == CHOOSE i \in FailedFiles(r) : TRUE
                ref == IndexAll(r.store0, Without(r.files, k))
            IN  \A i \in (1..Len(r.files)) \ {k} :
                  LET j == IF i < k THEN i ELSE i - 1 IN
                  /\ r.log[i].verdict = ref.verdicts[j]
                  /\ RowsAt(store, r.files[i].name)
                       = RowsAt(ref.store, r.files[i].name)

\* the first file failed and the second one was then created
C2_Witness ==
  /\ ix[1].pc = "done"
  /\ Len(ix[1].files) = 2
  /\ FailedFiles(ix[1]) = {1}
  /\ ix[1].log[2].ops = <<"create">>
  /\ RowsAt(store, ix[1].files[2].name) # {}

\* C3 as stated: integrityCheck never raises, and when it has ended every
\* record of its snapshot whose file is not listed is soft-deleted.
C3_IntegrityContainsFailure ==
  /\ ic.pc # "raised"
  /\ ic.pc = "returned" =>
       \A i \in 1..Len(ic.games) :
         ~Listed(ic.games[i])
           => \E r \in store : r.id = ic.games[i].id /\ r.deleted

C5_SoftDeletesAbsent ==
  ic.pc = "returned" =>
    /\ \A i \in 1..Len(ic.games) :
         LET g == ic.games[i] IN
         IF Listed(g)
         THEN g \in store /\ ~g.deleted
         ELSE [g EXCEPT !.deleted = TRUE] \in store /\ g \notin store
    /\ {r \in store : r.id \notin {ic.games[i].id : i \in 1..Len(ic.games)}}
         = {r \in ic.store0 : r.deleted}
    /\ Cardinality(store) = Cardinality(ic.store0)

\* one record is missing from the listing, another is listed at another size
C5_Witness ==
  /\ ic.pc = "returned"
  /\ \E i \in 1..Len(ic.games) : ~Listed(ic.games[i])
  /\ \E i \in 1..Len(ic.games), j \in 1..Len(ic.files) :
       /\ ic.files[j].name = ic.games[i].file_path
       /\ ic.files[j].size # ic.games[i].size

\* C6: no step of indexFiles or integrityCheck removes a row: every id of
\* the store is still there after the step and the number of rows does not
\* decrease.
C6_NoHardDelete ==
  [][/\ Ids(store) \subseteq Ids(store')
     /\ Cardinality(store') >= Cardinality(store)]_vars

\* integrityCheck has soft-deleted a row, which is still in the store
C6_Witness ==
  /\ ic.pc = "returned"
  /\ \E i \in 1..Len(ic.games) :
       [ic.games[i] EXCEPT !.deleted = TRUE] \in store

\* C7: no two rows of the store, active or soft-deleted, have the same
\* file_path.
C7_FilePathUnique ==
  \A r1, r2 \in store : r1.file_path = r2.file_path => r1 = r2

\* a create for a path that already has a row was attempted and rejected
C7_Witness ==
  /\ faults = 0
  /\ \E p \in Procs : \E i \in 1..Len(ix[p].log) :
       /\ ix[p].log[i].ops = <<"create">>
       /\ ix[p].log[i].error = "store"
       /\ Cardinality(RowsAt(store, ix[p].files[i].name)) = 1

\* C8: a file whose path holds a soft-deleted row (left by integrityCheck)
\* of the same size is classified EXISTS_BUT_DELETED; its path holds exactly
\* one row all along, the restored one between the restore and the update;
\* and once the file is handled without failure that same row, same id, is
\* active and otherwise as before, after a restore followed by an update.
C8_RestoreRoundTrip ==
  \A p \in Procs :
    LET r == ix[p] IN
    \A i \in 1..Len(r.log) :
      (WasDeleted(r, i) /\ RowBefore(r, i).size = r.files[i].size)
        => /\ Cardinality(RowsAt(store, r.files[i].name)) = 1
           /\ Classified(r, i) => r.log[i].verdict = "EXISTS_BUT_DELETED"
           /\ (r.pc = "update" /\ i = r.pos)
                => HoldsAt(r, i, [RowBefore(r, i) EXCEPT !.deleted = FALSE])
           /\ Succeeded(r, i)
                => /\ HoldsAt(r, i, [RowBefore(r, i) EXCEPT !.deleted = FALSE])
                   /\ r.log[i].ops = <<"restore", "update">>

C8_Witness ==
  \E i \in 1..Len(ix[1].log) :
    /\ Succeeded(ix[1], i)
    /\ WasDeleted(ix[1], i)
    /\ RowBefore(ix[1], i).size = ix[1].files[i].size
    /\ \E row \in store : row.id = RowBefore(ix[1], i).id /\ ~row.deleted

\* the saveGame of case EXISTS_BUT_ALTERED of process p has just succeeded
AlteredSaved(p) ==
  /\ ix[p].pc = "switch"
  /\ ix[p].existing[1] = "EXISTS_BUT_ALTERED"
  /\ ix'[p].pos = ix[p].pos + 1
  /\ ix'[p].log[ix[p].pos].error = "none"

\* C9: a file whose path holds an active row of another size is classified
\* EXISTS_BUT_ALTERED; once it is handled without failure the path holds that
\* same row with the size of the file, after one update; and the update
\* leaves the number of rows and the number of active rows as they were.
C9_AlteredInPlace ==
  /\ [](\A p \in Procs :
          LET r == ix[p] IN
          \A i \in 1..Len(r.log) :
            (WasActive(r, i) /\ RowBefore(r, i).size # r.files[i].size)
              => /\ Classified(r, i) => r.log[i].verdict = "EXISTS_BUT_ALTERED"
                 /\ Succeeded(r, i)
                      => /\ HoldsAt(r, i, [RowBefore(r, i) EXCEPT
                                             !.size = r.files[i].size])
                         /\ r.log[i].ops = <<"update">>)
  /\ [][\A p \in Procs :
          AlteredSaved(p)
            => /\ Cardinality(store') = Cardinality(store)
               /\ Cardinality(Active(store')) = Cardinality(Active(store))
               /\ Ids(store') = Ids(store)]_vars

C9_Witness ==
  \E i \in 1..Len(ix[1].log) :
    /\ Succeeded(ix[1], i)
    /\ ix[1].log[i].verdict = "EXISTS_BUT_ALTERED"
    /\ \E row \in Active(store) :
         /\ row.file_path = ix[1].files[i].name
         /\ row.size = ix[1].files[i].size
         /\ row.size # RowBefore(ix[1], i).size

\* the verdict of the classifier's table for the row found at the path
VerdictFor(r, i) ==
  IF WasAbsent(r, i) THEN "DOES_NOT_EXIST"
  ELSE IF WasDeleted(r, i) THEN "EXISTS_BUT_DELETED"
  ELSE IF RowBefore(r, i).size = r.files[i].size THEN "EXISTS"
  ELSE "EXISTS_BUT_ALTERED"

\* C10: every parsed and looked-up file gets the one verdict of the table
\* (no row: DOES_NOT_EXIST; active row of the same size: EXISTS; active row
\* of another size: EXISTS_BUT_ALTERED; soft-deleted row: EXISTS_BUT_DELETED
\* whatever the size); a store operation fails for it only when the store
\* fails; and once handled without failure: one create of an active row
\* built from the file; no write and the row as it was; one update leaving
\* the row active with the file's size; a restore, with the marker cleared
\* before the update, then the update.
C10_VerdictTable ==
  \A p \in Procs :
    LET r == ix[p] IN
    \A i \in 1..Len(r.log) :
      LET e == r.log[i] IN
      /\ (faults = 0 /\ e.error # "none") => ReleaseYearThrows(r.files[i].name)
      /\ Classified(r, i) =>
           /\ e.verdict \in Verdicts
           /\ e.verdict = VerdictFor(r, i)
           /\ (e.verdict = "EXISTS_BUT_DELETED" /\ r.pc = "update" /\ i = r.pos)
                => /\ HoldsAt(r, i, [RowBefore(r, i) EXCEPT !.deleted = FALSE])
                   /\ e.ops = <<"restore">>
           /\ Succeeded(r, i) =>
                CASE e.verdict = "DOES_NOT_EXIST" ->
                       /\ e.ops = <<"create">>
                       /\ \E row \in store :
                            /\ row.id \notin Ids(r.store0)
                            /\ HoldsAt(r, i, [ParseGame(r.files[i]) EXCEPT
                                                !.id = row.id])
                  [] e.verdict = "EXISTS" ->
                       /\ e.ops = <<>>
                       /\ HoldsAt(r, i, RowBefore(r, i))
                  [] e.verdict = "EXISTS_BUT_ALTERED" ->
                       /\ e.ops = <<"update">>
                       /\ HoldsAt(r, i, [RowBefore(r, i) EXCEPT
                                           !.size = r.files[i].size])
                  [] e.verdict = "EXISTS_BUT_DELETED" ->
                       /\ e.ops = <<"restore", "update">>
                       /\ HoldsAt(r, i, [RowBefore(r, i) EXCEPT
                                           !.size = r.files[i].size,
                                           !.deleted = FALSE])

\* one call has created a row for one file and restored, at another size,
\* the row of another
C10_Witness ==
  /\ ix[1].pc = "done"
  /\ \A i \in 1..Len(ix[1].log) : ix[1].log[i].error = "none"
  /\ \E i \in 1..Len(ix[1].log) : ix[1].log[i].verdict = "DOES_NOT_EXIST"
  /\ \E i \in 1..Len(ix[1].log) :
       /\ ix[1].log[i].verdict = "EXISTS_BUT_DELETED"
       /\ RowBefore(ix[1], i).size # ix[1].files[i].size

\* a group of exactly four digits in parentheses starts at position i of s
YearGroupAt(s, i) ==
  /\ i + 5 <= Len(s)
  /\ LET g == SubSeq(s, i, i + 5)
     IN  g[1] = "(" /\ g[6] = ")" /\ \A k \in 2..5 : g[k] \in Digits
HasYearGroup(s) == \E i \in 1..Len(s) : YearGroupAt(s, i)

Written(r, i) ==
  /\ r.log[i].error = "none"
  /\ \E k \in 1..Len(r.log[i].ops) : r.log[i].ops[k] \in {"create", "update"}

\* C12 as stated: a file whose name has a year group but leaves an empty
\* title is not accepted: no row that indexFiles created or overwrote for a
\* file has the empty string as its title.
C12_TitleNeverEmpty ==
  \A p \in Procs :
    LET r == ix[p] IN
    \A i \in 1..Len(r.log) :
      Written(r, i)
        => \A row \in RowsAt(store, r.files[i].name) : row.title # <<>>

\* s ends with e
EndsWith(s, e) ==
  Len(s) >= Len(e) /\ SubSeq(s, Len(s) - Len(e) + 1, Len(s)) = e

\* C13 as stated: the listing that getFiles returns holds every file under
\* the root whose name ends with an extension of the allow-list, the
\* multi-part ones included, and no file whose name ends with none of them.
C13_ListerByAllowList ==
  \A p \in Procs :
    LET r == ix[p] IN
    \A k \in 1..Len(r.dir) :
      (\E e \in AllowedExtensions : EndsWith(r.dir[k].name, e))
        <=> (\E j \in 1..Len(r.files) : r.files[j] = r.dir[k])

\* --- the grammar of file names, read from left to right

\* the last segment of a path: what follows its last separator
RECURSIVE GrammarSegment(_)
GrammarSegment(s) ==
  IF \A i \in 1..Len(s) : s[i] \notin {"/", "\\"} THEN s
  ELSE GrammarSegment(Tail(s))

\* a segment without its extension (the final dot and the text after it)
RECURSIVE GrammarStem(_)
GrammarStem(s) ==
  IF \A i \in 1..Len(s) : s[i] # "." THEN s
  ELSE IF s[Len(s)] = "." THEN SubSeq(s, 1, Len(s) - 1)
  ELSE GrammarStem(SubSeq(s, 1, Len(s) - 1))

\* what follows the first ")" of s
RECURSIVE AfterClose(_)
AfterClose(s) == IF Head(s) = ")" THEN Tail(s) ELSE AfterClose(Tail(s))

\* what precedes the first ")" of s
RECURSIVE BeforeClose(_)
BeforeClose(s) ==
  IF Head(s) = ")" THEN <<>> ELSE <<Head(s)>> \o BeforeClose(Tail(s))

HasClose(s) == \E i \in 1..Len(s) : s[i] = ")"

\* a text without its groups: a "(" that some ")" follows opens a group that
\* the first such ")" closes
RECURSIVE GrammarUngroup(_)
GrammarUngroup(s) ==
  IF s = <<>> THEN <<>>
  ELSE IF Head(s) = "(" /\ HasClose(Tail(s))
       THEN GrammarUngroup(AfterClose(Tail(s)))
       ELSE <<Head(s)>> \o GrammarUngroup(Tail(s))

RECURSIVE TrimLeft(_)
TrimLeft(s) ==
  IF s # <<>> /\ Head(s) = " " THEN TrimLeft(Tail(s)) ELSE s

RECURSIVE TrimRight(_)
TrimRight(s) ==
  IF s # <<>> /\ s[Len(s)] = " " THEN TrimRight(SubSeq(s, 1, Len(s) - 1))
  ELSE s

GrammarTitle(path) ==
  TrimRight(TrimLeft(GrammarUngroup(GrammarStem(GrammarSegment(path)))))

\* the text between the parentheses of the first group "(v<text>)", <text>
\* being at least one character and holding no ")"; NoVersion without one
RECURSIVE GrammarVersion(_)
GrammarVersion(s) ==
  IF Len(s) < 4 THEN NoVersion
  ELSE IF /\ s[1] = "(" /\ s[2] = "v" /\ s[3] # ")"
          /\ HasClose(SubSeq(s, 4, Len(s)))
       THEN BeforeClose(Tail(s))
       ELSE GrammarVersion(Tail(s))

DecimalDigits == <<"0", "1", "2", "3", "4", "5", "6", "7", "8", "9">>
Decimal(c) == (CHOOSE n \in 1..10 : DecimalDigits[n] = c) - 1

\* 1 January of the year of the first group of exactly four digits
RECURSIVE GrammarReleaseDate(_)
GrammarReleaseDate(s) ==
  IF YearGroupAt(s, 1)
  THEN [year  |-> ((Decimal(s[2]) * 10 + Decimal(s[3])) * 10
                     + Decimal(s[4])) * 10 + Decimal(s[5]),
        month |-> 1,
        day   |-> 1]
  ELSE GrammarReleaseDate(Tail(s))

GrammarEarlyAccess(s) ==
  \E i \in 1..Len(s) :
    /\ i + 3 <= Len(s)
    /\ s[i] = "(" /\ s[i + 1] = "E" /\ s[i + 2] = "A" /\ s[i + 3] = ")"

\* the candidate that the grammar gives for a file
GrammarAgrees(game, file) ==
  /\ game.file_path = file.name
  /\ game.size = file.size
  /\ game.title = GrammarTitle(file.name)
  /\ game.version = GrammarVersion(file.name)
  /\ game.release_date = GrammarReleaseDate(file.name)
  /\ game.early_access = GrammarEarlyAccess(file.name)

\* "Grand Theft Auto V"
TitleExample ==
  <<"G", "r", "a", "n", "d", " ", "T", "h", "e", "f", "t", " ", "A", "u",
    "t", "o", " ", "V">>
\* "v1.0.0"
VersionExample == <<"v", "1", ".", "0", ".", "0">>

\* C14: every file whose path has a year group is parsed, and the candidate
\* built from it, like the row then created or overwritten for it, has the
\* title, version, release date and early access flag that the grammar
\* gives: the last segment without extension and groups, trimmed; the text of
\* the first group "(v<text>)" or none; 1 January of the first group of
\* exactly four digits; whether "(EA)" occurs. "Grand Theft Auto V (2013)
\* (v1.0.0) (EA).zip" gives "Grand Theft Auto V", 2013-01-01, "v1.0.0", true.
C14_ParserAgreesWithGrammar ==
  \A p \in Procs :
    LET r == ix[p] IN
    /\ r.gameToIndex # NoGame
         => /\ GrammarAgrees(r.gameToIndex, r.files[r.pos])
            /\ r.files[r.pos].name = PathExample
                 => /\ r.gameToIndex.title = TitleExample
                    /\ r.gameToIndex.version = VersionExample
                    /\ r.gameToIndex.release_date
                         = [year |-> 2013, month |-> 1, day |-> 1]
                    /\ r.gameToIndex.early_access
    /\ \A i \in 1..Len(r.log) :
         /\ HasYearGroup(r.files[i].name) => r.log[i].error # "parse"
         /\ Written(r, i)
              => \A row \in RowsAt(store, r.files[i].name) :
                   GrammarAgrees(row, r.files[i])

\* the row of the example was created
C14_Witness ==
  /\ ix[1].pc = "done"
  /\ Len(ix[1].log) = 1
  /\ Written(ix[1], 1)
  /\ \E row \in store :
       /\ row.file_path = PathExample
       /\ row.title = TitleExample
       /\ row.version = VersionExample
       /\ row.release_date.year = 2013
       /\ row.early_access

StepsLeft(r) ==
  CASE r.pc = "loop"   -> 3 * (Len(r.files) - r.pos + 1) + 1
    [] r.pc = "switch" -> 3 * (Len(r.files) - r.pos + 1)
    [] r.pc = "update" -> 3 * (Len(r.files) - r.pos + 1) - 1
    [] OTHER           -> 0

RowsOf(s, files, which) ==
  {row \in s : \E i \in which : files[i].name = row.file_path}

\* C16: when a call of indexFiles is cut short, the rows at the paths of the
\* files it had not reached are the ones it began with and, no store
\* operation having failed, the rows of the files it had got past are the
\* ones a run over these files gives; when indexFiles is then run to its end
\* over the same listing, no store operation failing, it issues no write for
\* the files the first call had got past and the store ends as an
\* uninterrupted run over the listing leaves the store the first call began
\* with.
C16_SafeCancellation ==
  \A p \in Procs :
    LET r == ix[p]
        n == Len(r.files)
    IN
    /\ r.pc = "aborted"
         => /\ RowsOf(store, r.files, (r.pos + 1)..n)
                 = RowsOf(r.store0, r.files, (r.pos + 1)..n)
            /\ store \ RowsOf(store, r.files, 1..n)
                 = r.store0 \ RowsOf(r.store0, r.files, 1..n)
            /\ faults = 0
                 => RowsOf(store, r.files, 1..(r.pos - 1))
                      = RowsOf(IndexAll(r.store0,
                                        SubSeq(r.files, 1, r.pos - 1)).store,
                               r.files, 1..(r.pos - 1))
    /\ (r.repeat = "resumed" /\ faults = 0)
         => /\ \A i \in r.settled :
                 i <= Len(r.log) => r.log[i].ops = <<>>
            /\ r.pc = "done" => store = IndexAll(r.origin, r.files).store

\* the first call was cut between the restore and the update of a file of a
\* new size, after it had got past another file, and the second call has
\* ended
C16_Witness ==
  /\ ix[1].repeat = "resumed"
  /\ ix[1].pc = "done"
  /\ faults = 0
  /\ ix[1].settled # {}
  /\ \E i \in 1..Len(ix[1].log) :
       /\ ix[1].log[i].verdict = "EXISTS_BUT_ALTERED"
       /\ \E row \in RowsAt(ix[1].origin, ix[1].files[i].name) :
            /\ row.deleted
            /\ row.size # ix[1].files[i].size
            /\ ix[1].log[i].pre = {[row EXCEPT !.deleted = FALSE]}

\* the listings that hold the files of `files` in another order
Reorderings(files) ==
  LET n == Len(files) IN
  {[i \in 1..n |-> files[f[i]]] :
     f \in {g \in [1..n -> 1..n] : \A i, j \in 1..n : i # j => g[i] # g[j]}}

\* the rows of s, the ones that s0 did not hold without the id that the
\* table generated for them
Content(s, s0) ==
  {IF row.id \in Ids(s0) THEN row ELSE [row EXCEPT !.id = NoId] : row \in s}

C18_ScanConverges ==
  (/\ ix[1].pc = "done"
   /\ ic.pc = "returned"
   /\ ic.files = ix[1].files
   /\ faults = 0)
    => LET L == ix[1].files IN
       /\ \A row \in Active(store) :
            \E i \in 1..Len(L) : L[i].name = row.file_path
       /\ \A i \in 1..Len(L) :
            HasYearGroup(L[i].name)
              => /\ Cardinality(RowsAt(Active(store), L[i].name)) = 1
                 /\ \A row \in RowsAt(Active(store), L[i].name) :
                      row.size = L[i].size

\* a scan has ended that restored or updated the row of one file, skipped a
\* file, and soft-deleted the row of a file that is gone
C18_Witness ==
  /\ ix[1].pc = "done"
  /\ ic.pc = "returned"
  /\ faults = 0
  /\ \E i \in 1..Len(ix[1].log) : "update" \in
       {ix[1].log[i].ops[k] : k \in 1..Len(ix[1].log[i].ops)}
  /\ \E i \in 1..Len(ix[1].log) : ix[1].log[i].error = "parse"
  /\ \E row \in store : row.deleted /\ [row EXCEPT !.deleted = FALSE] \in ic.store0

\* the saveGame of an updateGame of process p has just succeeded
UpdateSaved(p) ==
  /\ \/ ix[p].pc = "update"
     \/ ix[p].pc = "switch" /\ ix[p].existing[1] = "EXISTS_BUT_ALTERED"
  /\ ix'[p].pos = ix[p].pos + 1
  /\ ix'[p].log[ix[p].pos].error = "none"

\* C19: the save of an updateGame, for a row found at another size or for a
\* row just restored, replaces the matched row by a row of the same id whose
\* file_path, title, release_date, size, version and early_access are those
\* of the file and whose other attributes (the identifier at the metadata
\* provider, the soft-delete mark) are what they were; a row just restored
\* stays active; no other row changes.
C19_UpdateFrame ==
  [][\A p \in Procs :
       UpdateSaved(p)
         => LET id  == ix[p].existing[2].id
                g   == ix[p].gameToIndex
                old == CHOOSE row \in store : row.id = id
                new == CHOOSE row \in store' : row.id = id
            IN  /\ Cardinality({row \in store : row.id = id}) = 1
                /\ Cardinality({row \in store' : row.id = id}) = 1
                /\ new.id = old.id
                /\ new.rawg_id = old.rawg_id
                /\ new.deleted = old.deleted
                /\ ix[p].pc = "update" => ~new.deleted
                /\ new.file_path = g.file_path
                /\ new.title = g.title
                /\ new.release_date = g.release_date
                /\ new.size = g.size
                /\ new.version = g.version
                /\ new.early_access = g.early_access
                /\ DOMAIN new = DOMAIN old
                /\ store' \ {new} = store \ {old}]_vars

\* a soft-deleted row that the metadata provider knows was restored and
\* overwritten with the new size of its file
C19_Witness ==
  \E i \in 1..Len(ix[1].log) :
    /\ Succeeded(ix[1], i)
    /\ ix[1].log[i].verdict = "EXISTS_BUT_DELETED"
    /\ RowBefore(ix[1], i).rawg_id \in RawgIds
    /\ RowBefore(ix[1], i).size # ix[1].files[i].size
    /\ \E row \in Active(store) :
         /\ row.id = RowBefore(ix[1], i).id
         /\ row.rawg_id = RowBefore(ix[1], i).rawg_id
         /\ row.size = ix[1].files[i].size

\* the create of file i of process p was rejected by the store, no store
\* operation having failed by itself
CreateRejected(p, i) ==
  /\ faults = 0
  /\ ix[p].log[i].ops = <<"create">>
  /\ ix[p].log[i].error = "store"

\* C20: a file classified DOES_NOT_EXIST is created and nothing else; when
\* two calls overlap on a path, a create that the unique index rejects is
\* logged as the failure of that file and the call goes on to its return,
\* the path then holding exactly the one row that the other call created
\* after both had found no row; a path never holds two rows; and no create
\* is rejected while the calls run one after the other.
C20_RaceContained ==
  /\ \A r1, r2 \in store : r1.file_path = r2.file_path => r1.id = r2.id
  /\ \A p \in Procs :
       LET r == ix[p] IN
       /\ r.pc \in {"idle", "loop", "switch", "update", "done"}
       /\ \A i \in 1..Len(r.log) :
            /\ (r.log[i].verdict = "DOES_NOT_EXIST" /\ i \in Handled(r))
                 => /\ r.log[i].ops = <<"create">>
                    /\ r.log[i].pre = {}
                    /\ r.log[i].error = "none"
                         => Cardinality(RowsAt(store, r.files[i].name)) = 1
            /\ CreateRejected(p, i)
                 => /\ i \in Handled(r)
                    /\ ix[2].pc # "idle"
                    /\ Cardinality(RowsAt(store, r.files[i].name)) = 1
                    /\ \E q \in Procs \ {p} :
                         /\ ix[q].files = r.files
                         /\ Len(ix[q].log) >= i
                         /\ ix[q].log[i].pre = {}
                         /\ ix[q].log[i].ops = <<"create">>
                         /\ ix[q].log[i].error = "none"

\* two overlapping calls have both found no row at a path and returned: one
\* created the row, the create of the other was rejected
C20_Witness ==
  /\ ix[1].pc = "done"
  /\ ix[2].pc = "done"
  /\ \E p \in Procs : \E i \in 1..Len(ix[p].log) :
       /\ CreateRejected(p, i)
       /\ \A q \in Procs : ix[q].log[i].verdict = "DOES_NOT_EXIST"
       /\ Cardinality(RowsAt(store, ix[p].files[i].name)) = 1

====
